---------------------------- MODULE Spec2Model ----------------------------
(***************************************************************************)
(* A model of agol-validator: the tag normaliser and reconciler and the    *)
(* attribute checkers of checks.py, and the check-then-fix run of          *)
(* validate.py as started by __main__.py.                                  *)
(*                                                                         *)
(* A Python str is a sequence of one-character strings, so that splitting, *)
(* casing and substring tests are computed and not assumed.  '' is << >>.  *)
(***************************************************************************)
EXTENDS Naturals, Integers, Sequences, FiniteSets, TLC

VARIABLES
    \* the run of validate.py (class validator) under __main__.main
    feature_service_items,  \* list of item objects, in enumeration order
    itemid_and_folder,      \* itemid -> folder
    metatable_dict,         \* itemid -> [table_sgid_name, table_agol_name]
    dry,                    \* args['--dry']
    pc,                     \* position of main()
    pos,                    \* loop position inside check_items / fix_items
    report,                 \* the DataFrame: itemid -> row
    written,                \* report.to_csv has run
    calls,                  \* mutation calls made on the platform, in order
    \* one checker of checks.py applied to one item
    item,                   \* the item handed to the checker
    result,                 \* what the last checker returned
    fedBack,                \* new_tags of a first tags_check were made the item's tags
    \* tag_case applied to one tag
    tag, cased, recased

runVars   == <<feature_service_items, dry, pc, pos, report, written, calls>>
checkVars == <<item, itemid_and_folder, result, fedBack>>
caseVars  == <<tag, cased, recased>>
vars      == <<feature_service_items, itemid_and_folder, metatable_dict, dry, pc, pos,
               report, written, calls, item, result, fedBack, tag, cased, recased>>

-----------------------------------------------------------------------------
(* Bounds of the model *)

MaxTagLen == 4      \* longest tag handed to tag_case alone
MaxTags   == 2      \* longest tag list of an enumerated item
MaxGroups == 2      \* most groups an item is shared with
MaxItems  == 2      \* most feature services the run enumerates

-----------------------------------------------------------------------------
(* Python str and list operations, as the code uses them *)

Lowers == <<"a","b","c","d","e","f","g","h","i","j","k","l","m",
            "n","o","p","q","r","s","t","u","v","w","x","y","z">>
Uppers == <<"A","B","C","D","E","F","G","H","I","J","K","L","M",
            "N","O","P","Q","R","S","T","U","V","W","X","Y","Z">>
Whitespace == {" ", "\t", "\n"}

IsLower(c) == \E i \in DOMAIN Lowers : Lowers[i] = c
IsUpper(c) == \E i \in DOMAIN Uppers : Uppers[i] = c
IsCased(c) == IsLower(c) \/ IsUpper(c)
CharLower(c) == IF IsUpper(c) THEN Lowers[CHOOSE i \in DOMAIN Uppers : Uppers[i] = c] ELSE c
CharUpper(c) == IF IsLower(c) THEN Uppers[CHOOSE i \in DOMAIN Lowers : Lowers[i] = c] ELSE c

\* str.lower(), str.upper()
RECURSIVE StrLower(_)
StrLower(s) == IF s = << >> THEN << >> ELSE <<CharLower(Head(s))>> \o StrLower(Tail(s))
RECURSIVE StrUpper(_)
StrUpper(s) == IF s = << >> THEN << >> ELSE <<CharUpper(Head(s))>> \o StrUpper(Tail(s))

\* str.title(): a cased character is upper-cased unless the character before
\* it is cased, and then it is lower-cased; '2g' -> '2G', 'a-b' -> 'A-B'
RECURSIVE TitleFrom(_, _)
TitleFrom(s, i) ==
    IF i > Len(s) THEN << >>
    ELSE <<IF ~IsCased(s[i]) THEN s[i]
           ELSE IF i > 1 /\ IsCased(s[i-1]) THEN CharLower(s[i])
           ELSE CharUpper(s[i])>> \o TitleFrom(s, i + 1)
StrTitle(s) == TitleFrom(s, 1)

\* str.replace(c, '') for a one-character c
RemoveChar(s, c) == SelectSeq(s, LAMBDA x : x # c)

\* x in list
InList(x, list) == \E i \in DOMAIN list : list[i] = x

\* str.split(): the maximal runs of non-whitespace, none of them empty
RECURSIVE SplitFrom(_, _, _)
SplitFrom(s, i, word) ==
    IF i > Len(s) THEN (IF word = << >> THEN << >> ELSE <<word>>)
    ELSE IF s[i] \in Whitespace
         THEN (IF word = << >> THEN << >> ELSE <<word>>) \o SplitFrom(s, i + 1, << >>)
         ELSE SplitFrom(s, i + 1, Append(word, s[i]))
Split(s) == SplitFrom(s, 1, << >>)

\* sep.join(words)
RECURSIVE Join(_, _)
Join(words, sep) ==
    IF words = << >> THEN << >>
    ELSE IF Len(words) = 1 THEN words[1]
    ELSE words[1] \o sep \o Join(Tail(words), sep)

\* str.strip()
RECURSIVE LStrip(_)
LStrip(s) == IF s # << >> /\ s[1] \in Whitespace THEN LStrip(Tail(s)) ELSE s
RECURSIVE RStrip(_)
RStrip(s) == IF s # << >> /\ s[Len(s)] \in Whitespace
             THEN RStrip(SubSeq(s, 1, Len(s) - 1)) ELSE s
Strip(s) == RStrip(LStrip(s))

\* sub in s, for two strs
OccursAt(sub, s, k) == /\ k + Len(sub) - 1 <= Len(s)
                       /\ \A j \in 1..Len(sub) : s[k + j - 1] = sub[j]
IsSubstring(sub, s) == \E k \in 1..(Len(s) + 1) : OccursAt(sub, s, k)

\* s.split(sep)[-1]: what follows the last occurrence of sep, or all of s
SplitLast(s, sep) ==
    LET at == {k \in 1..Len(s) : OccursAt(sep, s, k)}
    IN IF at = {} THEN s
       ELSE LET k == CHOOSE x \in at : \A y \in at : y <= x
            IN SubSeq(s, k + Len(sep), Len(s))

\* s.split(sep) for a non-empty sep: the pieces between its occurrences
RECURSIVE SplitOnFrom(_, _, _, _)
SplitOnFrom(s, sep, i, piece) ==
    IF i > Len(s) THEN <<piece>>
    ELSE IF OccursAt(sep, s, i)
         THEN <<piece>> \o SplitOnFrom(s, sep, i + Len(sep), << >>)
         ELSE SplitOnFrom(s, sep, i + 1, Append(piece, s[i]))
SplitOn(s, sep) == SplitOnFrom(s, sep, 1, << >>)

\* list.remove(x): the list without the first occurrence of x
RemoveFirst(list, x) ==
    LET k == CHOOSE i \in DOMAIN list : list[i] = x /\ \A j \in 1..(i-1) : list[j] # x
    IN SubSeq(list, 1, k - 1) \o SubSeq(list, k + 1, Len(list))

\* sorted(a) == sorted(b): the two lists hold the same elements, each as often
Count(list, x) == Cardinality({i \in DOMAIN list : list[i] = x})
SortedEqual(a, b) ==
    /\ Len(a) = Len(b)
    /\ \A i \in DOMAIN a : Count(a, a[i]) = Count(b, a[i])

-----------------------------------------------------------------------------
(* validate.py: the class's word lists *)

uppercased_tags ==
  << <<"2", "g">>,
     <<"3", "g">>,
     <<"4", "g">>,
     <<"a", "g", "r", "c">>,
     <<"a", "o", "g">>,
     <<"a", "t", "&", "t">>,
     <<"b", "l", "m">>,
     <<"b", "r", "a", "t">>,
     <<"c", "a", "f">>,
     <<"c", "d", "l">>,
     <<"d", "a", "q">>,
     <<"d", "f", "c", "m">>,
     <<"d", "f", "i", "r", "m">>,
     <<"d", "w", "q">>,
     <<"e", "9", "1", "1">>,
     <<"e", "m", "s">>,
     <<"f", "a", "e">>,
     <<"f", "c", "c">>,
     <<"f", "e", "m", "a">>,
     <<"g", "c", "d", "b">>,
     <<"g", "i", "s">>,
     <<"g", "n", "i", "s">>,
     <<"h", "a", "v", "a">>,
     <<"h", "u", "c">>,
     <<"l", "i", "r">>,
     <<"l", "r", "s">>,
     <<"l", "t", "e">>,
     <<"l", "u", "c", "a">>,
     <<"m", "r", "r", "c">>,
     <<"n", "c", "a">>,
     <<"n", "g", "9", "1", "1">>,
     <<"n", "o", "x">>,
     <<"n", "p", "s", "b", "n">>,
     <<"n", "t", "i", "a">>,
     <<"n", "w", "i">>,
     <<"p", "l", "s", "s">>,
     <<"p", "m", "1", "0">>,
     <<"p", "s", "a", "p">>,
     <<"s", "b", "d", "c">>,
     <<"s", "b", "i">>,
     <<"s", "g", "i", "d">>,
     <<"s", "i", "t", "l", "a">>,
     <<"s", "l", "i", "g", "p">>,
     <<"t", "r", "a", "x">>,
     <<"u", "c", "a">>,
     <<"u", "d", "o", "t">>,
     <<"u", "g", "s">>,
     <<"u", "h", "p">>,
     <<"u", "i", "c">>,
     <<"u", "s">>,
     <<"u", "s", "d", "w">>,
     <<"u", "s", "f", "s">>,
     <<"u", "s", "f", "w", "s">>,
     <<"u", "s", "p", "s">>,
     <<"u", "s", "t", "c">>,
     <<"u", "t">>,
     <<"u", "t", "a">>,
     <<"v", "c", "p">>,
     <<"v", "i", "s", "t", "a">>,
     <<"v", "o", "c">> >>

articles == << <<"a">>, <<"t", "h", "e">>, <<"o", "f">>, <<"i", "s">>, <<"i", "n">> >>

tags_to_delete == << <<".", "s", "d">>,
                     <<"s", "e", "r", "v", "i", "c", "e", " ", "d", "e", "f", "i", "n", "i", "t", "i", "o", "n">> >>

-----------------------------------------------------------------------------
(* Python values the code tells apart *)

None == <<"None">>                      \* not a str: no str holds a 4-character element
NaN  == <<"NaN">>                       \* an unset DataFrame cell
PyDict(d) == [py |-> "dict", v |-> d]   \* a checker's returned dict
PyList(l) == [py |-> "list", v |-> l]   \* a checker's returned list
Truthy(x) == x # None /\ x # << >>      \* bool(x) for a str or None
Y == <<"Y">>                            \* the str 'Y'
N == <<"N">>                            \* the str 'N'

-----------------------------------------------------------------------------
(* checks.py: tag_case *)

\* one pass of the loop body: the word with its periods removed, then cased
CaseWord(word, uppercased, arts) ==
    LET cleaned_word == RemoveChar(word, ".")
    IN IF InList(StrLower(cleaned_word), uppercased) THEN StrUpper(cleaned_word)
       ELSE IF InList(StrLower(cleaned_word), arts) THEN StrLower(cleaned_word)
       ELSE StrTitle(cleaned_word)

\* lines 22-34: the cased words, in order
RECURSIVE new_words(_, _, _)
new_words(words, uppercased, arts) ==
    IF words = << >> THEN << >>
    ELSE <<CaseWord(Head(words), uppercased, arts)>>
         \o new_words(Tail(words), uppercased, arts)

tag_case(t, uppercased, arts) == Join(new_words(Split(t), uppercased, arts), <<" ">>)

-----------------------------------------------------------------------------
(* checks.py: tags_check *)

S_utah      == <<"u", "t", "a", "h">>
S_Utah      == <<"U", "t", "a", "h">>
S_Utah_SGID == <<"U", "t", "a", "h", " ", "S", "G", "I", "D">>
S_Utah_SGID_ == <<"U", "t", "a", "h", " ", "S", "G", "I", "D", " ">>
S_SGID      == <<"S", "G", "I", "D">>
S_AGRC      == <<"A", "G", "R", "C">>

\* lines 51-54: the title the tags are held against
EvaluationTitle(it, new_title) == IF Truthy(new_title) THEN new_title ELSE it.title

\* the substring test made without regard to case
multi_word_tag_in_title_anycase(orig_tag, title) ==
    InList(" ", orig_tag) /\ IsSubstring(StrLower(orig_tag), StrLower(title))

\* lines 76-83
single_word_tag_in_title(orig_tag, title) == InList(orig_tag, Split(title))
multi_word_tag_in_title(orig_tag, title) ==
    InList(" ", orig_tag) /\ IsSubstring(orig_tag, title)

\* lines 66-106: one pass of the loop over orig_tags
EvaluateTag(orig_tag, title, to_delete, uppercased, arts, new_tags) ==
    LET lowercase_tag == StrLower(orig_tag)
    IN IF lowercase_tag = S_utah /\ ~InList(orig_tag, Split(title))
         THEN Append(new_tags, S_Utah)
       ELSE IF InList(lowercase_tag, to_delete) THEN new_tags
       ELSE IF single_word_tag_in_title(orig_tag, title)
               \/ multi_word_tag_in_title(orig_tag, title) THEN new_tags
       ELSE LET cased_tag == tag_case(orig_tag, uppercased, arts)
            IN IF ~InList(cased_tag, new_tags) THEN Append(new_tags, cased_tag)
               ELSE new_tags

RECURSIVE EvaluateTags(_, _, _, _, _, _)
EvaluateTags(orig_tags, title, to_delete, uppercased, arts, new_tags) ==
    IF orig_tags = << >> THEN new_tags
    ELSE EvaluateTags(Tail(orig_tags), title, to_delete, uppercased, arts,
                      EvaluateTag(Head(orig_tags), title, to_delete, uppercased, arts,
                                  new_tags))

\* lines 109-115: the group titles, none when fetching them raises
GroupTitles(it) == IF it.groups_ok THEN it.groups ELSE << >>

\* lines 118-130: one pass of the loop over groups
AddCategory(group, new_tags) ==
    IF ~IsSubstring(S_Utah_SGID, group) THEN new_tags
    ELSE LET category == SplitLast(group, S_Utah_SGID_)
             with_category ==
                 IF InList(StrLower(category), new_tags)
                   THEN Append(RemoveFirst(new_tags, StrLower(category)), category)
                 ELSE IF ~InList(category, new_tags) THEN Append(new_tags, category)
                 ELSE new_tags
             with_sgid == IF ~InList(S_SGID, with_category)
                          THEN Append(with_category, S_SGID) ELSE with_category
         IN IF ~InList(S_AGRC, with_sgid) THEN Append(with_sgid, S_AGRC) ELSE with_sgid

RECURSIVE AddCategories(_, _)
AddCategories(groups, new_tags) ==
    IF groups = << >> THEN new_tags
    ELSE AddCategories(Tail(groups), AddCategory(Head(groups), new_tags))

\* line 60: [t.strip() for t in item.tags]
RECURSIVE StripAll(_)
StripAll(tags) ==
    IF tags = << >> THEN << >> ELSE <<Strip(Head(tags))>> \o StripAll(Tail(tags))

\* lines 60-130: the reconciled tag list
ReconciledTags(it, to_delete, uppercased, arts, new_title) ==
    LET title == EvaluationTitle(it, new_title)
        orig_tags == StripAll(it.tags)
    IN AddCategories(GroupTitles(it),
                     EvaluateTags(orig_tags, title, to_delete, uppercased, arts, << >>))

tags_check(it, to_delete, uppercased, arts, new_title) ==
    LET new_tags == ReconciledTags(it, to_delete, uppercased, arts, new_title)
    IN IF ~SortedEqual(new_tags, it.tags)
       THEN PyDict([fix_tags |-> Y, old_tags |-> it.tags, new_tags |-> new_tags])
       ELSE PyDict([fix_tags |-> N, old_tags |-> << >>, new_tags |-> << >>])

-----------------------------------------------------------------------------
(* checks.py: the attribute checkers *)

S_Error          == <<"E", "r", "r", "o", "r">>
S_Cant_get_group == <<"C", "a", "n", "'", "t", " ", "g", "e", "t", " ", "g", "r", "o", "u", "p">>
S_Extract        == <<"E", "x", "t", "r", "a", "c", "t">>

\* a Python list compared with a str by ==: never equal, whatever they hold
ListEqualsStr(list, s) == FALSE

\* [group.title for group in item.shared_with['groups']], ['Error'] when it raises
CurrentGroups(it) == IF it.groups_ok THEN it.groups ELSE <<S_Error>>

\* SGID_name.split('.')[1].title()
TableCategory(SGID_name) == StrTitle(SplitOn(SGID_name, <<".">>)[2])

title_check(it, metatable) ==
    LET table_agol_title == IF it.itemid \in DOMAIN metatable
                            THEN metatable[it.itemid][2] ELSE None
    IN IF Truthy(table_agol_title) /\ table_agol_title # it.title
       THEN PyDict([fix_title |-> Y, old_title |-> it.title,
                    new_title |-> table_agol_title])
       ELSE PyDict([fix_title |-> N, old_title |-> << >>, new_title |-> << >>])

folder_check(it, metatable, folders) ==
    LET current_folder == folders[it.itemid]
        table_folder == IF it.itemid \in DOMAIN metatable
                        THEN TableCategory(metatable[it.itemid][1]) ELSE None
    IN IF Truthy(table_folder) /\ table_folder # current_folder
       THEN PyDict([fix_folder |-> Y, old_folder |-> current_folder,
                    new_folder |-> table_folder])
       ELSE PyDict([fix_folder |-> N, old_folder |-> << >>, new_folder |-> << >>])

\* the comparison made without first asking whether the metatable gave a group
groups_check_unguarded(it, metatable) ==
    LET current_groups == CurrentGroups(it)
        group == IF it.itemid \in DOMAIN metatable
                 THEN S_Utah_SGID_ \o TableCategory(metatable[it.itemid][1]) ELSE None
    IN IF ListEqualsStr(current_groups, S_Error)
         THEN PyList(<<N, S_Cant_get_group, << >>>>)
       ELSE IF ~InList(group, current_groups)
         THEN PyDict([fix_groups |-> Y, old_groups |-> current_groups,
                      new_group |-> group])
       ELSE PyDict([fix_groups |-> N, old_groups |-> << >>, new_group |-> << >>])

groups_check(it, metatable) ==
    LET current_groups == CurrentGroups(it)
        group == IF it.itemid \in DOMAIN metatable
                 THEN S_Utah_SGID_ \o TableCategory(metatable[it.itemid][1]) ELSE None
    IN IF ListEqualsStr(current_groups, S_Error)
         THEN PyList(<<N, S_Cant_get_group, << >>>>)
       ELSE IF Truthy(group) /\ ~InList(group, current_groups)
         THEN PyDict([fix_groups |-> Y, old_groups |-> current_groups,
                      new_group |-> group])
       ELSE PyDict([fix_groups |-> N, old_groups |-> << >>, new_group |-> << >>])

\* properties is None when fetching the manager's properties raises; a fetched
\* properties dict is never empty, so it is truthy
downloads_check(it) ==
    LET properties == it.properties_ok
    IN IF properties /\ ~IsSubstring(S_Extract, it.capabilities)
       THEN PyDict([fix_downloads |-> Y])
       ELSE PyDict([fix_downloads |-> N])

delete_protection_check(it) ==
    IF ~it.protected THEN PyDict([fix_delete_protection |-> Y])
    ELSE PyDict([fix_delete_protection |-> N])

-----------------------------------------------------------------------------
(* The items, folders and catalog rows the platform and the metatable hand  *)
(* to the program                                                          *)

S_Roads            == <<"R", "o", "a", "d", "s">>
S_roads            == <<"r", "o", "a", "d", "s">>
S_Utah_Roads       == <<"U", "t", "a", "h", " ", "R", "o", "a", "d", "s">>
S_Counties         == <<"C", "o", "u", "n", "t", "i", "e", "s">>
S_Utah_Lakes       == <<"U", "t", "a", "h", " ", "L", "a", "k", "e", "s">>
S_Boundaries       == <<"B", "o", "u", "n", "d", "a", "r", "i", "e", "s">>
S_Water            == <<"W", "a", "t", "e", "r">>
S_UTAH             == <<"U", "T", "A", "H">>
S_sgid             == <<"s", "g", "i", "d">>
S_Agrc             == <<"A", "g", "r", "c">>
S_dot_SD           == <<".", "S", "D">>
S_water_related    == <<"w", "a", "t", "e", "r", "-", "r", "e", "l", "a", "t", "e", "d">>
S_Water_Related    == <<"W", "a", "t", "e", "r", "-", "R", "e", "l", "a", "t", "e", "d">>
S_Cycle_Net        == <<"C", "y", "c", "l", "e", " ", "N", "e", "t">>
S_Bicycle_Network  == <<"B", "i", "c", "y", "c", "l", "e", " ", "N", "e", "t", "w", "o", "r", "k">>
S_Query            == <<"Q", "u", "e", "r", "y">>
S_Query_Extract    == <<"Q", "u", "e", "r", "y", ",", "E", "x", "t", "r", "a", "c", "t">>
S_Utah_SGID_Boundaries == S_Utah_SGID_ \o S_Boundaries
S_Utah_SGID_boundaries == S_Utah_SGID_ \o StrLower(S_Boundaries)
S_Utah_SGID_Water  == S_Utah_SGID_ \o S_Water
S_AGRC_Staff       == <<"A", "G", "R", "C", " ", "S", "t", "a", "f", "f">>
S_SGID_BOUNDARIES_Counties ==
    <<"S", "G", "I", "D", ".", "B", "O", "U", "N", "D", "A", "R", "I", "E", "S", ".",
      "C", "o", "u", "n", "t", "i", "e", "s">>
S_SGID_WATER_Lakes ==
    <<"S", "G", "I", "D", ".", "W", "A", "T", "E", "R", ".", "L", "a", "k", "e", "s">>

\* item.itemid is whatever the platform returns; the code uses it as a dict key,
\* as a DataFrame label and (fix_items) as a list index, so both a str and an
\* int identifier are inputs
StrId(k) == [type |-> "str", id |-> k]
IntId(k) == [type |-> "int", id |-> k]

\* the lists of length at most n over pool
ListsUpTo(pool, n) == UNION {[1..k -> pool] : k \in 0..n}

\* metatable rows: [TABLENAME, AGOL_PUBLISHED_NAME], keyed by AGOL_ITEM_ID
CatalogEntries == {<<S_SGID_BOUNDARIES_Counties, S_Counties>>,
                   <<S_SGID_WATER_Lakes, S_Utah_Lakes>>}
Metatables(ids) == UNION {[S -> CatalogEntries] : S \in SUBSET ids}

Folders   == {None, S_Boundaries, S_Water}
TagPool   == {S_roads, S_utah, S_UTAH, S_sgid, S_Agrc, S_Boundaries, S_dot_SD, S_water_related}

Item(id, title, tags, groups_ok, groups, protected, properties_ok, capabilities) ==
    [itemid |-> id, title |-> title, tags |-> tags,
     groups_ok |-> groups_ok, groups |-> groups, protected |-> protected,
     properties_ok |-> properties_ok, capabilities |-> capabilities]

\* what item.shared_with['groups'] can do: raise, or return up to MaxGroups groups
GroupOutcomes ==
    {<<FALSE, << >>>>}
    \cup {<<TRUE, g>> :
            g \in ListsUpTo({S_Utah_SGID_Boundaries, S_Utah_SGID_boundaries,
                             S_Utah_SGID_Water, S_AGRC_Staff}, MaxGroups)}
\* what fetching the manager's properties can do: raise, or return capabilities
PropertyOutcomes == {<<FALSE, << >>>>, <<TRUE, S_Query>>, <<TRUE, S_Query_Extract>>}

\* the end-to-end scenario's item
BicycleItem ==
    Item(StrId(0), S_Bicycle_Network,
         <<S_Cycle_Net, S_dot_SD, S_utah, S_water_related>>,
         TRUE, << >>, FALSE, TRUE, S_Query)

NoResult == [check |-> "none"]

-----------------------------------------------------------------------------
(* tag_case alone: one tag in, cased once and once more *)

TagStrings  == ListsUpTo({"a", "u", "S", ".", "-", " "}, MaxTagLen)
NotCased    == <<"not cased">>

IdleRun ==
    /\ feature_service_items = << >>
    /\ dry = TRUE
    /\ pc = "idle"
    /\ pos = 0
    /\ report = << >>
    /\ written = FALSE
    /\ calls = << >>
IdleCheck ==
    /\ item = BicycleItem
    /\ itemid_and_folder = [i \in {BicycleItem.itemid} |-> None]
    /\ metatable_dict = << >>
    /\ result = NoResult
    /\ fedBack = FALSE
IdleCase ==
    /\ tag = << >>
    /\ cased = NotCased
    /\ recased = NotCased

TagCaseInit ==
    /\ tag \in TagStrings
    /\ cased = NotCased
    /\ recased = NotCased
    /\ IdleRun
    /\ IdleCheck

TagCase ==
    /\ cased = NotCased
    /\ cased' = tag_case(tag, uppercased_tags, articles)
    /\ UNCHANGED <<tag, recased>>
    /\ UNCHANGED <<runVars, checkVars, metatable_dict>>

TagCaseAgain ==
    /\ cased # NotCased
    /\ recased = NotCased
    /\ recased' = tag_case(cased, uppercased_tags, articles)
    /\ UNCHANGED <<tag, cased>>
    /\ UNCHANGED <<runVars, checkVars, metatable_dict>>

TagCaseNext == TagCase \/ TagCaseAgain
TagCaseSpec == TagCaseInit /\ [][TagCaseNext]_vars

-----------------------------------------------------------------------------
(* The checkers of checks.py, each applied to one item *)

CheckGroupOutcomes ==
    {<<FALSE, << >>>>}
    \cup {<<TRUE, g>> : g \in ListsUpTo({S_Utah_SGID_Boundaries, S_AGRC_Staff}, MaxGroups)}

\* an item of every kind the attribute checkers tell apart
CheckItems ==
    {Item(id, title, tags, g[1], g[2], protected, p[1], p[2]) :
        id \in {StrId(0)}, title \in {S_Roads, S_Counties},
        tags \in {<< >>, <<S_roads>>, <<S_dot_SD>>},
        g \in CheckGroupOutcomes, protected \in BOOLEAN, p \in PropertyOutcomes}

ChecksInit ==
    /\ item \in CheckItems
    /\ \E folder \in Folders : itemid_and_folder = [i \in {item.itemid} |-> folder]
    /\ metatable_dict \in Metatables({StrId(0), StrId(1)})
    /\ result = NoResult
    /\ fedBack = FALSE
    /\ IdleRun
    /\ IdleCase

\* an item of every kind tag reconciliation tells apart
TagItems ==
    {Item(StrId(0), title, tags, g[1], g[2], FALSE, TRUE, S_Query) :
        title \in {S_Roads, S_Utah_Roads, S_Counties}, tags \in ListsUpTo(TagPool, MaxTags), g \in GroupOutcomes}
    \cup {BicycleItem}

TagsInit ==
    /\ item \in TagItems
    /\ itemid_and_folder = [i \in {item.itemid} |-> None]
    /\ metatable_dict = << >>
    /\ result = NoResult
    /\ fedBack = FALSE
    /\ IdleRun
    /\ IdleCase

\* a checker is pure: applying it again to the same item returns the same, so
\* each is applied to an item that has no result yet
TitleCheck ==
    /\ result = NoResult
    /\ result' = [check |-> "title_check",
                  data |-> title_check(item, metatable_dict)]
    /\ UNCHANGED <<item, itemid_and_folder, fedBack>>
    /\ UNCHANGED <<runVars, caseVars, metatable_dict>>

GroupsCheck ==
    /\ result = NoResult
    /\ result' = [check |-> "groups_check",
                  data |-> groups_check(item, metatable_dict)]
    /\ UNCHANGED <<item, itemid_and_folder, fedBack>>
    /\ UNCHANGED <<runVars, caseVars, metatable_dict>>

FolderCheck ==
    /\ result = NoResult
    /\ result' = [check |-> "folder_check",
                  data |-> folder_check(item, metatable_dict, itemid_and_folder)]
    /\ UNCHANGED <<item, itemid_and_folder, fedBack>>
    /\ UNCHANGED <<runVars, caseVars, metatable_dict>>

TagsCheck ==
    /\ result = NoResult
    /\ result' = [check |-> "tags_check",
                  data |-> tags_check(item, tags_to_delete, uppercased_tags,
                                     articles, None)]
    /\ UNCHANGED <<item, itemid_and_folder, fedBack>>
    /\ UNCHANGED <<runVars, caseVars, metatable_dict>>

DownloadsCheck ==
    /\ result = NoResult
    /\ result' = [check |-> "downloads_check",
                  data |-> downloads_check(item)]
    /\ UNCHANGED <<item, itemid_and_folder, fedBack>>
    /\ UNCHANGED <<runVars, caseVars, metatable_dict>>

DeleteProtectionCheck ==
    /\ result = NoResult
    /\ result' = [check |-> "delete_protection_check",
                  data |-> delete_protection_check(item)]
    /\ UNCHANGED <<item, itemid_and_folder, fedBack>>
    /\ UNCHANGED <<runVars, caseVars, metatable_dict>>

\* the reconciled tags become the item's tags, and nothing else changes
FeedBack ==
    /\ result.check = "tags_check"
    /\ result.data.v.fix_tags = Y
    /\ ~fedBack
    /\ item' = [item EXCEPT !.tags = result.data.v.new_tags]
    /\ fedBack' = TRUE
    /\ result' = NoResult
    /\ UNCHANGED itemid_and_folder
    /\ UNCHANGED <<runVars, caseVars, metatable_dict>>

ChecksNext == \/ TitleCheck
              \/ GroupsCheck
              \/ FolderCheck
              \/ TagsCheck
              \/ DownloadsCheck
              \/ DeleteProtectionCheck
ChecksSpec == ChecksInit /\ [][ChecksNext]_vars

TagsNext == TagsCheck \/ FeedBack
TagsSpec == TagsInit /\ [][TagsNext]_vars

-----------------------------------------------------------------------------
(* validate.py: check_items *)

S_Not_SGID == <<"N", "o", "t", " ", "S", "G", "I", "D">>
S_sep      == <<";", " ">>

\* a row of pd.DataFrame(index=itemids, columns=columns): every cell unset
EmptyRow ==
    [fix_title |-> NaN, old_title |-> NaN, new_title |-> NaN,
     fix_groups |-> NaN, old_groups |-> NaN, new_group |-> NaN,
     fix_folder |-> NaN, old_folder |-> NaN, new_folder |-> NaN,
     fix_tags |-> NaN, old_tags |-> NaN, new_tags |-> NaN,
     fix_downloads |-> NaN, fix_delete_protection |-> NaN]

\* checks.check_tags, which check_items calls: the reconciled tag list
check_tags(it, to_delete, uppercased, arts) ==
    ReconciledTags(it, to_delete, uppercased, arts, None)

\* checks.get_category_and_name, which check_items calls: (title, group, folder)
\* from the metatable, 'Not SGID' for an item it does not hold
get_category_and_name(it, metatable) ==
    IF it.itemid \in DOMAIN metatable
    THEN LET category == TableCategory(metatable[it.itemid][1])
         IN <<metatable[it.itemid][2], S_Utah_SGID_ \o category, category>>
    ELSE <<S_Not_SGID, S_Not_SGID, S_Not_SGID>>

\* item.shared_with['groups'] and the manager's properties, as the platform
\* answers: a value, or an exception
SharedWithGroups(it) == [raised |-> ~it.groups_ok, value |-> it.groups]
ManagerProperties(it) == [raised |-> ~it.properties_ok, value |-> it.capabilities]

\* the group titles read with no try block around them
TryCurrentGroups_uncaught(it) ==
    [raised |-> SharedWithGroups(it).raised, value |-> SharedWithGroups(it).value]

\* lines 148-151: try / except around the group titles
TryCurrentGroups(it) ==
    IF SharedWithGroups(it).raised THEN [raised |-> FALSE, value |-> <<S_Error>>]
    ELSE [raised |-> FALSE, value |-> SharedWithGroups(it).value]

\* lines 179-183: try / except around the properties; None is value << >> here,
\* with fetched FALSE
TryProperties(it) ==
    IF ManagerProperties(it).raised THEN [raised |-> FALSE, fetched |-> FALSE, value |-> << >>]
    ELSE [raised |-> FALSE, fetched |-> TRUE, value |-> ManagerProperties(it).value]

\* lines 140-143
TitleData(it, title) ==
    IF title # it.title THEN <<Y, it.title, title>> ELSE <<N, it.title, << >>>>

\* lines 152-157
GroupsData(current_groups, group) ==
    IF ListEqualsStr(current_groups, S_Error) THEN <<N, S_Cant_get_group, << >>>>
    ELSE IF ~InList(group, current_groups) THEN <<Y, Join(current_groups, S_sep), group>>
    ELSE <<N, << >>, << >>>>

\* lines 162-166
FolderData(current_folder, folder) ==
    IF folder # current_folder THEN <<Y, current_folder, folder>> ELSE <<N, << >>, << >>>>

\* lines 171-174
TagsData(it, tags) ==
    IF ~SortedEqual(tags, it.tags) THEN <<Y, Join(it.tags, S_sep), Join(tags, S_sep)>>
    ELSE <<N, << >>, << >>>>

\* lines 184-187
DownloadsData(properties) ==
    IF properties.fetched /\ ~IsSubstring(S_Extract, properties.value) THEN <<Y>> ELSE <<N>>

\* lines 192-195
ProtectData(it) == IF ~it.protected THEN <<Y>> ELSE <<N>>

\* report.loc[itemid, cols] = data, for three columns and for one
SetCells(row, cols, data) ==
    [row EXCEPT ![cols[1]] = data[1], ![cols[2]] = data[2], ![cols[3]] = data[3]]
SetCell(row, col, data) == [row EXCEPT ![col] = data[1]]

title_cols  == <<"fix_title", "old_title", "new_title">>
groups_cols == <<"fix_tags", "old_groups", "new_group">>
folder_cols == <<"fix_folder", "old_folder", "new_folder">>
tags_cols   == <<"fix_tags", "old_tags", "new_tags">>

\* lines 137-168: the cells written for an item the metatable holds
CatalogedCells(it, row, names, folders) ==
    LET title == names[1]
        group == names[2]
        folder == names[3]
        r1 == SetCells(row, title_cols, TitleData(it, title))
        r2 == SetCells(r1, groups_cols, GroupsData(TryCurrentGroups(it).value, group))
    IN SetCells(r2, folder_cols, FolderData(folders[it.itemid], folder))

\* lines 118-197: the row of one item after its pass of the loop
CheckedRow(it, row, metatable, folders) ==
    LET tags == check_tags(it, tags_to_delete, uppercased_tags, articles)
        names == get_category_and_name(it, metatable)
        r1 == IF names[1] # S_Not_SGID THEN CatalogedCells(it, row, names, folders) ELSE row
        r2 == SetCells(r1, tags_cols, TagsData(it, tags))
        r3 == SetCell(r2, "fix_downloads", DownloadsData(TryProperties(it)))
    IN SetCell(r3, "fix_delete_protection", ProtectData(it))

\* an exception that leaves the loop body: one no try block catches
CheckRaises(it, metatable) ==
    \/ /\ get_category_and_name(it, metatable)[1] # S_Not_SGID
       /\ TryCurrentGroups(it).raised
    \/ TryProperties(it).raised

ItemIdsOf(items) == {items[i].itemid : i \in DOMAIN items}

\* lines 106-114
CheckItemsBegin ==
    /\ pc = "main"
    /\ report' = [id \in ItemIdsOf(feature_service_items) |-> EmptyRow]
    /\ pos' = 1
    /\ pc' = "check_items"
    /\ UNCHANGED <<feature_service_items, dry, written, calls>>
    /\ UNCHANGED <<checkVars, caseVars, metatable_dict>>

\* lines 116-197, one pass
CheckItem ==
    /\ pc = "check_items"
    /\ pos <= Len(feature_service_items)
    /\ LET it == feature_service_items[pos]
       IN IF CheckRaises(it, metatable_dict)
          THEN /\ pc' = "raised"
               /\ UNCHANGED <<report, pos>>
          ELSE /\ report' = [report EXCEPT ![it.itemid] =
                                CheckedRow(it, report[it.itemid], metatable_dict,
                                           itemid_and_folder)]
               /\ pos' = pos + 1
               /\ pc' = pc
    /\ UNCHANGED <<feature_service_items, dry, written, calls>>
    /\ UNCHANGED <<checkVars, caseVars, metatable_dict>>

\* lines 199-201
CheckItemsEnd ==
    /\ pc = "check_items"
    /\ pos > Len(feature_service_items)
    /\ written' = TRUE
    /\ pc' = "checked"
    /\ UNCHANGED <<feature_service_items, dry, pos, report, calls>>
    /\ UNCHANGED <<checkVars, caseVars, metatable_dict>>

-----------------------------------------------------------------------------
(* __main__.py: main, between check_items and fix_items *)

\* lines 53-54
MainFix ==
    /\ pc = "checked"
    /\ ~dry
    /\ pos' = 1
    /\ pc' = "fix_items"
    /\ UNCHANGED <<feature_service_items, dry, report, written, calls>>
    /\ UNCHANGED <<checkVars, caseVars, metatable_dict>>

MainDry ==
    /\ pc = "checked"
    /\ dry
    /\ pc' = "done"
    /\ UNCHANGED <<feature_service_items, dry, pos, report, written, calls>>
    /\ UNCHANGED <<checkVars, caseVars, metatable_dict>>

-----------------------------------------------------------------------------
(* validate.py: fix_items *)

\* report.to_dict('index'): the row keys, in the order of the DataFrame's index
ReportKeys(items) == [i \in DOMAIN items |-> items[i].itemid]

\* line 210, self.feature_service_items[itemid]: a list indexed by the row key.
\* A str key raises TypeError, an int past the end IndexError; an int in range
\* is the item at that position
ItemAt(items, itemid) ==
    IF itemid.type = "int" /\ itemid.id < Len(items)
    THEN [raised |-> FALSE, index |-> itemid.id + 1]
    ELSE [raised |-> TRUE, index |-> 0]

Call(op, arg) == [op |-> op, arg |-> arg]

\* lines 213-221
UpdateDict(row) ==
    LET keys == (IF row.fix_title = Y THEN {"title"} ELSE {})
                \cup (IF row.fix_tags = Y THEN {"tags"} ELSE {})
    IN [k \in keys |-> IF k = "title" THEN row.new_title ELSE SplitOn(row.new_tags, S_sep)]

\* lines 213-240: the calls one row asks for, in the order the code makes them
PlannedCalls(row) ==
    (IF DOMAIN UpdateDict(row) # {} THEN <<Call("update", UpdateDict(row))>> ELSE << >>)
    \o (IF row.fix_groups = Y THEN <<Call("share", row.new_group)>> ELSE << >>)
    \o (IF row.fix_folder = Y THEN <<Call("move", row.new_folder)>> ELSE << >>)
    \o (IF row.fix_delete_protection = Y THEN <<Call("protect", << >>)>> ELSE << >>)
    \o (IF row.fix_downloads = Y THEN <<Call("update_definition", << >>)>> ELSE << >>)

\* item.protect = True is an assignment; the other calls go to the platform and
\* may raise
MayRaise(call) == call.op # "protect"

Made(key, index, planned, n, failing) ==
    [i \in 1..n |-> [row |-> key, target |-> index, op |-> planned[i].op,
                     arg |-> planned[i].arg, ok |-> i # failing]]

\* lines 209-240, one pass: every call of the row, or those up to one that raises
FixItem ==
    /\ pc = "fix_items"
    /\ pos <= Len(feature_service_items)
    /\ LET itemid == ReportKeys(feature_service_items)[pos]
           found == ItemAt(feature_service_items, itemid)
           planned == PlannedCalls(report[itemid])
       IN IF found.raised
          THEN /\ pc' = "raised"
               /\ UNCHANGED <<calls, pos>>
          ELSE \E failing \in 0..Len(planned) :
                 /\ failing # 0 => MayRaise(planned[failing])
                 /\ IF failing = 0
                    THEN /\ calls' = calls \o Made(itemid, found.index, planned,
                                                   Len(planned), 0)
                         /\ pos' = pos + 1
                         /\ pc' = pc
                    ELSE /\ calls' = calls \o Made(itemid, found.index, planned,
                                                   failing, failing)
                         /\ pc' = "raised"
                         /\ pos' = pos
    /\ UNCHANGED <<feature_service_items, dry, report, written>>
    /\ UNCHANGED <<checkVars, caseVars, metatable_dict>>

FixItemsEnd ==
    /\ pc = "fix_items"
    /\ pos > Len(feature_service_items)
    /\ pc' = "done"
    /\ UNCHANGED <<feature_service_items, dry, pos, report, written, calls>>
    /\ UNCHANGED <<checkVars, caseVars, metatable_dict>>

-----------------------------------------------------------------------------
(* The run: the state validator.__init__ leaves, then main's two phases *)

\* an item with everything to fix, or with nothing to fix once the metatable
\* holds it as Counties in BOUNDARIES; every outcome of its two fetches
RunItem(id, needy, g, p) ==
    IF needy THEN Item(id, S_Roads, <<S_roads>>, g[1], g[2], FALSE, p[1], p[2])
    ELSE Item(id, S_Counties, << >>, g[1], g[2], TRUE, p[1], p[2])

RunGroupOutcomes == {<<FALSE, << >>>>, <<TRUE, << >>>>, <<TRUE, <<S_Utah_SGID_Boundaries>>>>}

\* the identifiers of n enumerated items: strs, or the ints 0..n-1 in some order
IdLists(n) ==
    {[i \in 1..n |-> StrId(i - 1)]}
    \cup {[i \in 1..n |-> IntId(f[i])] :
            f \in {g \in [1..n -> 0..(MaxItems - 1)] :
                     \A i, j \in 1..n : i # j => g[i] # g[j]}}

RunInit ==
    /\ \E n \in 0..MaxItems :
        \E ids \in IdLists(n), needy \in [1..n -> BOOLEAN],
           g \in [1..n -> RunGroupOutcomes], p \in [1..n -> PropertyOutcomes] :
            /\ feature_service_items =
                   [i \in 1..n |-> RunItem(ids[i], needy[i], g[i], p[i])]
            /\ itemid_and_folder =
                   [id \in {ids[i] : i \in 1..n} |->
                       IF needy[CHOOSE i \in 1..n : ids[i] = id]
                       THEN None ELSE S_Boundaries]
            /\ metatable_dict \in
                   UNION {[S -> {<<S_SGID_BOUNDARIES_Counties, S_Counties>>}] :
                            S \in SUBSET {ids[i] : i \in 1..n}}
    /\ dry \in BOOLEAN
    /\ pc = "main"
    /\ pos = 0
    /\ report = << >>
    /\ written = FALSE
    /\ calls = << >>
    /\ item = BicycleItem
    /\ result = NoResult
    /\ fedBack = FALSE
    /\ IdleCase

Next == \/ CheckItemsBegin
        \/ CheckItem
        \/ CheckItemsEnd
        \/ MainFix
        \/ MainDry
        \/ FixItem
        \/ FixItemsEnd

Spec == RunInit /\ [][Next]_vars

\* main has not returned and no exception has left it
Running == pc \notin {"done", "raised"}

\* the interpreter moves on to the next statement or the next loop pass
Advance ==
    /\ Running
    /\ \E p \in {"main", "check_items", "checked", "fix_items", "done", "raised"} :
        \E q \in 0..(MaxItems + 1) : pc' = p /\ pos' = q

\* main is one sequential thread: while it is running, the interpreter moves
\* it on.  Under Spec the steps that move <<pc, pos>> are the steps of Next,
\* and Next has a step from every state in which main is running.
FairSpec == Spec /\ WF_<<pc, pos>>(Advance)

-----------------------------------------------------------------------------
(* What a checker's result says: its flag, and whether its old and new      *)
(* values are empty ('' or None for a str, [] for a list)                   *)

IsSentinel(r) == r.data.py = "list"

FixFlag(r) ==
    IF IsSentinel(r) THEN r.data.v[1]
    ELSE IF r.check = "title_check" THEN r.data.v.fix_title
    ELSE IF r.check = "groups_check" THEN r.data.v.fix_groups
    ELSE IF r.check = "folder_check" THEN r.data.v.fix_folder
    ELSE r.data.v.fix_tags

EmptyStr(v) == v = << >> \/ v = None
EmptyList(v) == Len(v) = 0

OldEmpty(r) ==
    IF IsSentinel(r) THEN EmptyStr(r.data.v[2])
    ELSE IF r.check = "title_check" THEN EmptyStr(r.data.v.old_title)
    ELSE IF r.check = "groups_check" THEN EmptyList(r.data.v.old_groups)
    ELSE IF r.check = "folder_check" THEN EmptyStr(r.data.v.old_folder)
    ELSE EmptyList(r.data.v.old_tags)

NewEmpty(r) ==
    IF IsSentinel(r) THEN EmptyStr(r.data.v[3])
    ELSE IF r.check = "title_check" THEN EmptyStr(r.data.v.new_title)
    ELSE IF r.check = "groups_check" THEN EmptyStr(r.data.v.new_group)
    ELSE IF r.check = "folder_check" THEN EmptyStr(r.data.v.new_folder)
    ELSE EmptyList(r.data.v.new_tags)

Cataloged(it) == it.itemid \in DOMAIN metatable_dict

-----------------------------------------------------------------------------
(* C1: for the title, group, folder and tags checkers, the flag is 'N'     *)
(* exactly when the old and the new value are both empty, and 'Y' exactly  *)
(* when both are populated.                                                *)
C1_FlagMatchesValues ==
    result.check \in {"title_check", "groups_check", "folder_check", "tags_check"} =>
        /\ FixFlag(result) = N <=> (OldEmpty(result) /\ NewEmpty(result))
        /\ FixFlag(result) = Y <=> (~OldEmpty(result) /\ ~NewEmpty(result))

(* C2: an item whose itemid is not a key of the metatable never gets 'Y'   *)
(* from the title, group or folder check, whatever its title, groups       *)
(* (a failed fetch included) and folder are.                               *)
C2_UncatalogedNeverFixed ==
    (~Cataloged(item) /\ result.check \in {"title_check", "groups_check", "folder_check"})
        => FixFlag(result) = N

\* an item the metatable does not hold, its group fetch failed, its folder not
\* the root, in a run whose metatable holds another item: the group check ran
C2_Witness ==
    /\ ~Cataloged(item)
    /\ metatable_dict # << >>
    /\ ~item.groups_ok
    /\ itemid_and_folder[item.itemid] # None
    /\ result.check = "groups_check"

(* C5: when the group fetch of an item fails, the group check returns the  *)
(* sentinel ('N', "Can't get group") and so never a 'Y'.                   *)
C5_FailedFetchIsSentinel ==
    (~item.groups_ok /\ result.check = "groups_check") =>
        /\ IsSentinel(result)
        /\ result.data.v[1] = N
        /\ result.data.v[2] = S_Cant_get_group

(* C7: tags_check on its own new_tags, the title and groups unchanged,     *)
(* returns fix_tags = 'N'.                                                 *)
C7_SecondPassUnchanged ==
    (fedBack /\ result.check = "tags_check") => result.data.v.fix_tags = N

(* C8, as claimed: for the item titled "Bicycle Network" with tags         *)
(* ["Cycle Net", ".SD", "utah", "water-related"] and no groups, the        *)
(* reconciled tags are exactly ["Utah", "Water-Related"].                  *)
C8_BicycleTagsAsClaimed ==
    (item = BicycleItem /\ result.check = "tags_check") =>
        result.data.v.new_tags = <<S_Utah, S_Water_Related>>

(* C8, amended: for that item ".SD" is dropped, "Cycle Net" is kept (it is  *)
(* no substring of "Bicycle Network": the test is case-sensitive), "utah"  *)
(* becomes "Utah" and "water-related" becomes "Water-Related": the         *)
(* reconciled tags are exactly ["Cycle Net", "Utah", "Water-Related"].     *)
C8_BicycleTags ==
    (item = BicycleItem /\ result.check = "tags_check") =>
        /\ result.data.v.fix_tags = Y
        /\ result.data.v.new_tags = <<S_Cycle_Net, S_Utah, S_Water_Related>>

C8_Witness == item = BicycleItem /\ result.check = "tags_check"

\* the reconciled tags of a tags_check result: new_tags, or the item's own tags
\* when the result says they are the same tags
Reconciled(r) == IF r.data.v.fix_tags = Y THEN r.data.v.new_tags ELSE item.tags

(* C9: when the item's groups include "Utah SGID Boundaries", the          *)
(* reconciled tags hold each of "Boundaries", "SGID" and "AGRC" exactly    *)
(* once.                                                                   *)
C9_CategoryTagsOnce ==
    (/\ result.check = "tags_check"
     /\ item.groups_ok
     /\ InList(S_Utah_SGID_Boundaries, item.groups)) =>
        /\ Count(Reconciled(result), S_Boundaries) = 1
        /\ Count(Reconciled(result), S_SGID) = 1
        /\ Count(Reconciled(result), S_AGRC) = 1

(* C11: the reconciled tags of tags_check never hold the same string       *)
(* twice, whatever the item's tags, title and groups are.                  *)
C11_NoRepeatedTag ==
    result.check = "tags_check" =>
        \A i, j \in DOMAIN Reconciled(result) :
            i # j => Reconciled(result)[i] # Reconciled(result)[j]

(* C10: tag_case applied to its own result returns that result, whose      *)
(* words are joined by single spaces.                                      *)
C10_TagCaseIdempotent ==
    recased # NotCased =>
        /\ recased = cased
        /\ cased = Join(Split(cased), <<" ">>)

-----------------------------------------------------------------------------
(* What the check phase determines for an item, and what the fix phase did *)

\* the fixes check_items computes for an item, each as <<call, attribute>>
NeededFixes(it) ==
    LET names == get_category_and_name(it, metatable_dict)
        cataloged == names[1] # S_Not_SGID
        tags == check_tags(it, tags_to_delete, uppercased_tags, articles)
    IN (IF cataloged /\ TitleData(it, names[1])[1] = Y
        THEN {<<"update", "title">>} ELSE {})
       \cup (IF TagsData(it, tags)[1] = Y THEN {<<"update", "tags">>} ELSE {})
       \cup (IF cataloged /\ GroupsData(TryCurrentGroups(it).value, names[2])[1] = Y
             THEN {<<"share", "group">>} ELSE {})
       \cup (IF cataloged /\ FolderData(itemid_and_folder[it.itemid], names[3])[1] = Y
             THEN {<<"move", "folder">>} ELSE {})
       \cup (IF DownloadsData(TryProperties(it))[1] = Y
             THEN {<<"update_definition", "downloads">>} ELSE {})
       \cup (IF ProtectData(it)[1] = Y THEN {<<"protect", "delete protection">>} ELSE {})

\* the call of a fix was made for the row of item i, on item i itself
Issued(i, fix) ==
    \E k \in DOMAIN calls :
        /\ calls[k].row = feature_service_items[i].itemid
        /\ calls[k].target = i
        /\ calls[k].op = fix[1]
        /\ fix[1] = "update" => fix[2] \in DOMAIN calls[k].arg

\* a call of that kind was attempted for the row with that key
Attempted(key, op) ==
    \E k \in DOMAIN calls : calls[k].row = key /\ calls[k].op = op

RowProduced(row) ==
    /\ row.fix_tags \in {Y, N}
    /\ row.fix_downloads \in {Y, N}
    /\ row.fix_delete_protection \in {Y, N}

OneRowPerItem ==
    /\ DOMAIN report = ItemIdsOf(feature_service_items)
    /\ Cardinality(DOMAIN report) = Len(feature_service_items)
    /\ \A id \in DOMAIN report : RowProduced(report[id])

(* C3: a run that is not dry ends with, for every enumerated item and      *)
(* every fix the check phase determined for it, the fix's call made on     *)
(* that item for the row of that item.                                     *)
C3_NeededFixesIssued ==
    (~Running /\ ~dry) =>
        \A i \in DOMAIN feature_service_items :
            \A fix \in NeededFixes(feature_service_items[i]) : Issued(i, fix)

(* C4: when a mutation call has failed, the run still ends with every call *)
(* the report asks for attempted, for every row.                           *)
C4_FailureIsolated ==
    (~Running /\ \E k \in DOMAIN calls : ~calls[k].ok) =>
        \A i \in DOMAIN feature_service_items :
            LET key == ReportKeys(feature_service_items)[i]
                planned == PlannedCalls(report[key])
            IN \A j \in DOMAIN planned : Attempted(key, planned[j].op)

=============================================================================
